---- MODULE Spec2Model ----
(***************************************************************************)
(* HyperYield optimizer: the polling loop of gluex/backend/optimizer.py    *)
(* and the yield client of gluex/backend/gluex_client.py.                  *)
(*                                                                         *)
(* Numbers that take part in float arithmetic are Python floats, that is   *)
(* IEEE 754 double precision numbers with their rounding, infinities and   *)
(* NaN: the sign, the odd significand and the exponent of the number, the  *)
(* significand written in limbs of 15 bits.  Integers that can be large    *)
(* (check_interval) are written in the same limbs.  Strings are sequences  *)
(* of one-character strings, so that str.lower() is computed character by  *)
(* character.                                                              *)
(***************************************************************************)
EXTENDS Integers, Sequences, FiniteSets, TLC

(***************************************************************************)
(* Bounds of the model                                                     *)
(***************************************************************************)
\* the clock int(time.time()) runs from 1 to MaxTime
MaxTime == 2
\* the receipt of a rebalance reports success at most this many times
MaxRebalances == 2
\* a scan or a ranking applied on its own handles at most this many vaults
MaxScan == 3

(***************************************************************************)
(* Natural numbers of any size: the limbs of the number in base 2^15,      *)
(* least significant first, without leading zero limbs; << >> is zero.     *)
(***************************************************************************)
Base == 32768
Pow2 == <<1, 2, 4, 8, 16, 32, 64, 128, 256, 512, 1024, 2048, 4096, 8192,
          16384>>

Max(a, b) == IF a >= b THEN a ELSE b
Min(a, b) == IF a <= b THEN a ELSE b

RECURSIVE BTrim(_)
BTrim(a) ==
    IF a = << >> THEN a
    ELSE IF a[Len(a)] = 0 THEN BTrim(SubSeq(a, 1, Len(a) - 1))
    ELSE a

\* the limbs of the integer k >= 0
RECURSIVE BOf(_)
BOf(k) == IF k = 0 THEN << >> ELSE << k % Base >> \o BOf(k \div Base)

Limb(a, i) == IF i <= Len(a) THEN a[i] ELSE 0

RECURSIVE BCmpFrom(_, _, _)
BCmpFrom(a, b, i) ==
    IF i = 0 THEN 0
    ELSE IF a[i] # b[i] THEN (IF a[i] < b[i] THEN -1 ELSE 1)
    ELSE BCmpFrom(a, b, i - 1)

\* -1, 0 or 1 as a < b, a = b or a > b
BCmp(a, b) ==
    IF Len(a) # Len(b) THEN (IF Len(a) < Len(b) THEN -1 ELSE 1)
    ELSE BCmpFrom(a, b, Len(a))

RECURSIVE BAddFrom(_, _, _, _)
BAddFrom(a, b, i, c) ==
    IF i > Len(a) /\ i > Len(b) THEN (IF c = 0 THEN << >> ELSE << c >>)
    ELSE LET s == Limb(a, i) + Limb(b, i) + c
         IN  << s % Base >> \o BAddFrom(a, b, i + 1, s \div Base)

BAdd(a, b) == BAddFrom(a, b, 1, 0)

RECURSIVE BSubFrom(_, _, _, _)
BSubFrom(a, b, i, c) ==
    IF i > Len(a) THEN << >>
    ELSE LET s == a[i] - Limb(b, i) - c
         IN  << IF s < 0 THEN s + Base ELSE s >>
             \o BSubFrom(a, b, i + 1, IF s < 0 THEN 1 ELSE 0)

\* a - b, for a >= b
BSub(a, b) == BTrim(BSubFrom(a, b, 1, 0))

RECURSIVE BMulSmallFrom(_, _, _, _)
BMulSmallFrom(a, k, i, c) ==
    IF i > Len(a) THEN (IF c = 0 THEN << >> ELSE << c >>)
    ELSE LET p == a[i] * k + c
         IN  << p % Base >> \o BMulSmallFrom(a, k, i + 1, p \div Base)

\* a * k, for 0 <= k < Base
BMulSmall(a, k) == IF k = 0 THEN << >> ELSE BMulSmallFrom(a, k, 1, 0)

RECURSIVE BMul(_, _)
BMul(a, b) ==
    IF a = << >> \/ b = << >> THEN << >>
    ELSE LET r == BMul(a, Tail(b))
         IN  BAdd(BMulSmall(a, b[1]), IF r = << >> THEN r ELSE << 0 >> \o r)

\* a * 2^k
BShl(a, k) ==
    IF a = << >> THEN a
    ELSE [i \in 1..(k \div 15) |-> 0] \o BMulSmall(a, Pow2[(k % 15) + 1])

RECURSIVE BDivSmallFrom(_, _, _, _)
BDivSmallFrom(a, d, i, r) ==
    IF i = 0 THEN << >>
    ELSE LET x == r * Base + a[i]
         IN  BDivSmallFrom(a, d, i - 1, x % d) \o << x \div d >>

\* a \div 2^k
BShr(a, k) ==
    IF k \div 15 >= Len(a) THEN << >>
    ELSE BTrim(BDivSmallFrom(SubSeq(a, (k \div 15) + 1, Len(a)),
                             Pow2[(k % 15) + 1], Len(a) - (k \div 15), 0))

\* a % 2^k
BLow(a, k) ==
    IF k \div 15 >= Len(a) THEN a
    ELSE BTrim(SubSeq(a, 1, k \div 15)
               \o << a[(k \div 15) + 1] % Pow2[(k % 15) + 1] >>)

RECURSIVE BitLenInt(_)
BitLenInt(k) == IF k = 0 THEN 0 ELSE 1 + BitLenInt(k \div 2)

\* the number of binary digits of a
BBitLen(a) ==
    IF a = << >> THEN 0 ELSE 15 * (Len(a) - 1) + BitLenInt(a[Len(a)])

RECURSIVE TzInt(_)
TzInt(k) == IF k % 2 = 1 THEN 0 ELSE 1 + TzInt(k \div 2)

\* the number of zero bits at the low end of a # 0
RECURSIVE BTz(_)
BTz(a) == IF a[1] = 0 THEN 15 + BTz(Tail(a)) ELSE TzInt(a[1])

\* the largest g in lo..hi with g * d <= r
RECURSIVE DigitSearch(_, _, _, _)
DigitSearch(r, d, lo, hi) ==
    IF lo = hi THEN lo
    ELSE LET mid == (lo + hi + 1) \div 2
         IN  IF BCmp(BMulSmall(d, mid), r) <= 0
             THEN DigitSearch(r, d, mid, hi)
             ELSE DigitSearch(r, d, lo, mid - 1)

\* x \div d for x < d * Base: the leading limbs of x and d bound the digit
Digit(x, d) ==
    LET xt == Limb(x, Len(d)) + Limb(x, Len(d) + 1) * Base
        dt == d[Len(d)]
    IN  DigitSearch(x, d, xt \div (dt + 1), Min(Base - 1, (xt + 1) \div dt))

RECURSIVE BDivModFrom(_, _, _, _)
BDivModFrom(a, d, i, r) ==
    IF i = 0 THEN [q |-> << >>, r |-> r]
    ELSE LET x == BTrim(<< a[i] >> \o r)
             g == Digit(x, d)
             rest == BDivModFrom(a, d, i - 1, BSub(x, BMulSmall(d, g)))
         IN  [q |-> rest.q \o << g >>, r |-> rest.r]

\* quotient and remainder of a by d # 0
BDivMod(a, d) ==
    LET x == BDivModFrom(a, d, Len(a), << >>)
    IN  [q |-> BTrim(x.q), r |-> x.r]

(***************************************************************************)
(* Python floats: IEEE 754 binary64, round to nearest, ties to even.       *)
(* A finite float is (-1)^neg * m * 2^e with m odd (or m = 0 and e = 0),   *)
(* m < 2^53, e >= -1074 and m * 2^e < 2^1024.                              *)
(***************************************************************************)
Fin(neg, m, e) == [cls |-> "fin", neg |-> neg, m |-> m, e |-> e]
Inf(neg) == [cls |-> "inf", neg |-> neg, m |-> << >>, e |-> 0]
NaN == [cls |-> "nan", neg |-> FALSE, m |-> << >>, e |-> 0]
Zero(neg) == Fin(neg, << >>, 0)

\* the float m * 2^e, or the infinity when that is 2^1024 or more
Canon(neg, m, e) ==
    IF m = << >> THEN Zero(neg)
    ELSE IF e + BBitLen(m) > 1024 THEN Inf(neg)
    ELSE Fin(neg, BShr(m, BTz(m)), e + BTz(m))

\* the float nearest to (-1)^neg * (m + f) * 2^e, where 0 < f < 1 if sticky
\* and f = 0 if not: the bits below the 53rd, or below 2^-1074, are rounded
\* off, a tie going to the even neighbour; less than a quarter of 2^-1074
\* is rounded to zero
RoundToDouble(neg, m, e, sticky) ==
    LET drop == Max(BBitLen(m) - 53, (-1074) - e)
    IN  IF drop <= 0 THEN Canon(neg, m, e)
        ELSE IF drop > BBitLen(m) + 1 THEN Zero(neg)
        ELSE LET q == BShr(m, drop)
                 c == BCmp(BLow(m, drop), BShl(<< 1 >>, drop - 1))
                 up == c > 0 \/ (c = 0 /\ (sticky \/ Limb(q, 1) % 2 = 1))
             IN  Canon(neg, IF up THEN BAdd(q, << 1 >>) ELSE q, e + drop)

\* float(k) of an integer k
FloatOfInt(k) == Canon(k < 0, BOf(IF k < 0 THEN -k ELSE k), 0)

\* a Python int of any size: its sign and the limbs of its magnitude.  It is
\* what json gives for a JSON integer, and what int() gives; it has the
\* fields of a float with e = 0, so that the comparisons below compare an
\* int with a float by their exact values, as Python does.
PyInt(neg, m) == [cls |-> "int", neg |-> neg, m |-> m, e |-> 0]
IntOf(k) == PyInt(k < 0, BOf(IF k < 0 THEN -k ELSE k))

\* float(v) of a float or an int v: a float is returned as it is, an int is
\* rounded to the nearest float, a tie going to the even neighbour.  Python
\* raises OverflowError where the value here is an infinity made of an int.
PyFloat(v) == IF v.cls = "int" THEN RoundToDouble(v.neg, v.m, 0, FALSE) ELSE v

\* -1, 0, 1 as |a| < |b|, |a| = |b|, |a| > |b|, for finite a and b
MagCmp(a, b) ==
    IF a.m = << >> \/ b.m = << >>
    THEN (IF a.m = b.m THEN 0 ELSE IF a.m = << >> THEN -1 ELSE 1)
    ELSE IF a.e + BBitLen(a.m) # b.e + BBitLen(b.m)
    THEN (IF a.e + BBitLen(a.m) < b.e + BBitLen(b.m) THEN -1 ELSE 1)
    ELSE BCmp(BShl(a.m, a.e - Min(a.e, b.e)), BShl(b.m, b.e - Min(a.e, b.e)))

\* -1, 0, 1 as a < b, a == b, a > b, for a and b other than NaN
FCmp(a, b) ==
    IF a.cls = "inf" \/ b.cls = "inf"
    THEN (IF a.cls = b.cls /\ a.neg = b.neg THEN 0
          ELSE IF a.cls = "inf" THEN (IF a.neg THEN -1 ELSE 1)
          ELSE (IF b.neg THEN 1 ELSE -1))
    ELSE IF a.m = << >> /\ b.m = << >> THEN 0
    ELSE IF a.neg # b.neg
    THEN (IF (a.neg /\ a.m # << >>) \/ (~b.neg /\ a.m = << >>) THEN -1 ELSE 1)
    ELSE IF a.neg THEN MagCmp(b, a) ELSE MagCmp(a, b)

\* the comparisons of Python: each is false when a side is NaN
FLt(a, b) == a.cls # "nan" /\ b.cls # "nan" /\ FCmp(a, b) < 0
FGt(a, b) == FLt(b, a)
FEq(a, b) == a.cls # "nan" /\ b.cls # "nan" /\ FCmp(a, b) = 0
FLe(a, b) == a.cls # "nan" /\ b.cls # "nan" /\ FCmp(a, b) <= 0
FGe(a, b) == FLe(b, a)

\* -a
FNeg(a) == IF a.cls = "nan" THEN a ELSE [a EXCEPT !.neg = ~a.neg]

\* a + b of two finite floats before it is rounded
ExactSum(a, b) ==
    LET e == Min(a.e, b.e)
        x == BShl(a.m, a.e - e)
        y == BShl(b.m, b.e - e)
    IN  IF a.m = << >> /\ b.m = << >> THEN Zero(a.neg /\ b.neg)
        ELSE IF a.m = << >> THEN b
        ELSE IF b.m = << >> THEN a
        ELSE IF a.neg = b.neg THEN Fin(a.neg, BAdd(x, y), e)
        ELSE IF BCmp(x, y) = 0 THEN Zero(FALSE)
        ELSE IF BCmp(x, y) > 0 THEN Fin(a.neg, BSub(x, y), e)
        ELSE Fin(b.neg, BSub(y, x), e)

\* the exponent of the leading bit of a finite a # 0, plus one
Top(a) == a.e + BBitLen(a.m)

\* a + b for finite a and b # 0 with |b| < 2^(Top(a) - 56): b is below the
\* bits of a that rounding looks at, and only tells on which side of a the
\* sum lies
FarSum(a, b) ==
    LET k == 56 - BBitLen(a.m)
    IN  IF a.neg = b.neg
        THEN RoundToDouble(a.neg, BShl(a.m, k), a.e - k, TRUE)
        ELSE RoundToDouble(a.neg, BSub(BShl(a.m, k), << 1 >>), a.e - k, TRUE)

\* a + b
FAdd(a, b) ==
    IF a.cls = "nan" \/ b.cls = "nan" THEN NaN
    ELSE IF a.cls = "inf"
    THEN (IF b.cls = "inf" /\ a.neg # b.neg THEN NaN ELSE a)
    ELSE IF b.cls = "inf" THEN b
    ELSE IF a.m # << >> /\ b.m # << >> /\ Top(b) <= Top(a) - 56
    THEN FarSum(a, b)
    ELSE IF a.m # << >> /\ b.m # << >> /\ Top(a) <= Top(b) - 56
    THEN FarSum(b, a)
    ELSE LET s == ExactSum(a, b)
         IN  RoundToDouble(s.neg, s.m, s.e, FALSE)

\* a - b
FSub(a, b) == FAdd(a, FNeg(b))

\* a * b
FMul(a, b) ==
    IF a.cls = "nan" \/ b.cls = "nan" THEN NaN
    ELSE IF a.cls = "inf" \/ b.cls = "inf"
    THEN (IF (a.cls = "fin" /\ a.m = << >>) \/ (b.cls = "fin" /\ b.m = << >>)
          THEN NaN ELSE Inf(a.neg # b.neg))
    ELSE RoundToDouble(a.neg # b.neg, BMul(a.m, b.m), a.e + b.e, FALSE)

\* a / b for b other than zero (a zero divisor raises ZeroDivisionError):
\* the quotient is taken to 56 bits or more, and what is left of the
\* dividend tells whether it is exact.  Both are shifted by t so that the
\* leading limb of the divisor is 2^14 or more.
FDiv(a, b) ==
    IF a.cls = "nan" \/ b.cls = "nan" THEN NaN
    ELSE IF a.cls = "inf"
    THEN (IF b.cls = "inf" THEN NaN ELSE Inf(a.neg # b.neg))
    ELSE IF b.cls = "inf" \/ a.m = << >> THEN Zero(a.neg # b.neg)
    ELSE LET s == Max(0, 56 + BBitLen(b.m) - BBitLen(a.m))
             t == 15 - BitLenInt(b.m[Len(b.m)])
             dm == BDivMod(BShl(a.m, s + t), BShl(b.m, t))
         IN  RoundToDouble(a.neg # b.neg, dm.q, a.e - b.e - s, dm.r # << >>)

\* a / b of Python, b being an int other than zero that a float holds
\* exactly: float / int is the division of floats, int / int is rounded once
\* from the exact quotient of the two integers, which is not float(a) / b
\* when a has more than 53 bits.  Python raises OverflowError where the value
\* here is an infinity made of two ints; line 170 has then raised already.
TrueDiv(a, b) == FDiv(IF a.cls = "int" THEN Fin(a.neg, a.m, 0) ELSE a, b)

\* the float nearest to n/d, for integers n and d that floats hold exactly:
\* what Python reads a decimal literal as, e.g. 4.3 is Float(43, 10)
Float(n, d) == FDiv(FloatOfInt(n), FloatOfInt(d))

\* Python's min(a, b) and max(a, b): b is returned when b < a (b > a), a
\* otherwise, so a NaN in first place is returned and a NaN in second place
\* is not
PyMin(a, b) == IF FLt(b, a) THEN b ELSE a
PyMax(a, b) == IF FGt(b, a) THEN b ELSE a

\* the constants of the program that enter float arithmetic
F0 == FloatOfInt(0)
F1 == FloatOfInt(1)
F10 == FloatOfInt(10)
F50 == FloatOfInt(50)
F100 == FloatOfInt(100)
F10M == FloatOfInt(10000000)

\* a JSON null where a number is expected (Python None)
JNull == [cls |-> "null", neg |-> FALSE, m |-> << >>, e |-> 0]

\* float(v) returns for a float and for an int that rounds to a finite
\* float; it raises TypeError for None and OverflowError for a larger int
IsNumber(v) == v.cls # "null" /\ (v.cls = "int" => PyFloat(v).cls = "fin")

(***************************************************************************)
(* Strings and addresses                                                   *)
(***************************************************************************)
\* Python None where a string is expected
NoneStr == <<"None">>
EmptyStr == <<>>

LowerChar(c) ==
    CASE c = "A" -> "a" [] c = "B" -> "b" [] c = "C" -> "c"
      [] c = "D" -> "d" [] c = "E" -> "e" [] c = "F" -> "f"
      [] OTHER -> c

UpperChar(c) ==
    CASE c = "a" -> "A" [] c = "b" -> "B" [] c = "c" -> "C"
      [] c = "d" -> "D" [] c = "e" -> "E" [] c = "f" -> "F"
      [] OTHER -> c

\* str.lower()
Lower(s) == [i \in DOMAIN s |-> LowerChar(s[i])]

\* Python truthiness of an Optional[str]
TruthyStr(s) == s # NoneStr /\ s # EmptyStr

\* addresses are abbreviated to "0x" and their first four hex digits
GLUEX_VAULTS ==
    << <<"0", "x", "e", "2", "5", "5">>,
       <<"0", "x", "c", "d", "c", "3">>,
       <<"0", "x", "8", "f", "9", "2">>,
       <<"0", "x", "9", "f", "7", "5">>,
       <<"0", "x", "6", "3", "c", "f">> >>

ZERO_ADDRESS == <<"0", "x", "0", "0", "0", "0">>

\* an address that is not in GLUEX_VAULTS, as the contract returns it:
\* 0xabcd followed by 36 zeros, in checksum case
OTHER_VAULT == <<"0", "x", "A", "B", "c", "D">>

\* the EIP-55 form of the addresses above, which Web3.to_checksum_address
\* derives from the keccak-256 hash of the 40 hex digits: the first four
\* digits of 0xE25514992597786E07872e6C5517FE1906C0CAdD,
\* 0xCdc3975df9D1cf054F44ED238Edfb708880292EA,
\* 0x8F9291606862eEf771a97e5B71e4B98fd1Fa216a,
\* 0x9f75Eac57d1c6F7248bd2AEDe58C95689f3827f7,
\* 0x63Cf7EE583d9954FeBF649aD1c40C97a6493b1Be, of the zero address and of
\* OTHER_VAULT
EIP55 ==
    { <<"0", "x", "E", "2", "5", "5">>,
      <<"0", "x", "C", "d", "c", "3">>,
      <<"0", "x", "8", "F", "9", "2">>,
      <<"0", "x", "9", "f", "7", "5">>,
      <<"0", "x", "6", "3", "C", "f">>,
      ZERO_ADDRESS,
      OTHER_VAULT }

\* Web3.to_checksum_address: the same address in EIP-55 case, whatever the
\* case it is given in
to_checksum_address(s) == CHOOSE c \in EIP55 : Lower(c) = Lower(s)

Range(s) == {s[i] : i \in DOMAIN s}

(***************************************************************************)
(* JSON objects (Python dicts) and Optional values                         *)
(***************************************************************************)
\* Optional[X]: <<>> is None, <<x>> is the value x
None == <<>>
Some(x) == <<x>>

\* a dict is a function from its keys to values; dict.get(key, default)
Get(dict, key, default) == IF key \in DOMAIN dict THEN dict[key] ELSE default

\* truthiness of an Optional[Dict]: None and the empty dict are falsy
TruthyDict(od) == od # None /\ DOMAIN od[1] # {}

(***************************************************************************)
(* gluex_client.py: GlueXClient                                            *)
(***************************************************************************)
\* _calculate_risk_score without the max(0, .) around the TVL term
_calculate_risk_score_NoFloor(apy, tvl) ==
    LET apy_risk == FMul(PyMin(TrueDiv(apy, F100), F1), F50)
        tvl_safety == FSub(F50, FMul(TrueDiv(tvl, F10M), F10))
        risk_score == FAdd(apy_risk, tvl_safety)
    IN  PyMin(risk_score, F100)

\* _calculate_risk_score with the TVL term growing with the TVL
_calculate_risk_score_TvlRisk(apy, tvl) ==
    LET apy_risk == FMul(PyMin(TrueDiv(apy, F100), F1), F50)
        tvl_safety == PyMax(F0, FAdd(F50, FMul(TrueDiv(tvl, F10M), F10)))
        risk_score == FAdd(apy_risk, tvl_safety)
    IN  PyMin(risk_score, F100)

\* _calculate_risk_score(apy, tvl)
_calculate_risk_score(apy, tvl) ==
    LET apy_risk == FMul(PyMin(TrueDiv(apy, F100), F1), F50)
        tvl_safety == PyMax(F0, FSub(F50, FMul(TrueDiv(tvl, F10M), F10)))
        risk_score == FAdd(apy_risk, tvl_safety)
    IN  PyMin(risk_score, F100)

\* the dataclass YieldData
YieldData(vault_address, apy, tvl, risk_score, timestamp) ==
    [vault_address |-> vault_address, apy |-> apy, tvl |-> tvl,
     risk_score |-> risk_score, timestamp |-> timestamp]

\* the loop body testing the historical answer only
VaultYields_HistOnly(vault_address, hist_data, diluted_data, t) ==
    IF TruthyDict(hist_data)
    THEN LET apy == IF TruthyDict(diluted_data)
                    THEN Get(diluted_data[1], "apy", F0)
                    ELSE Get(hist_data[1], "apy", F0)
             tvl == Get(hist_data[1], "tvl", F0)
         IN  IF IsNumber(apy) /\ IsNumber(tvl)
             THEN << YieldData(vault_address, PyFloat(apy), PyFloat(tvl),
                               _calculate_risk_score(apy, tvl), t) >>
             ELSE << >>
    ELSE << >>

\* the body of the for loop of get_multiple_vault_yields for one vault:
\* hist_data and diluted_data are the Optional[Dict] answers of
\* get_historical_apy and get_diluted_apy, t is int(time.time()).  The value
\* is the list of entries appended for this vault: one entry, or none when
\* an answer is falsy or float() / the arithmetic raises (except: continue).
\* apy and tvl are what json made of the answers, ints or floats: the entry
\* holds float(apy) and float(tvl), the risk score is computed from apy and
\* tvl themselves.
VaultYields(vault_address, hist_data, diluted_data, t) ==
    IF TruthyDict(hist_data) /\ TruthyDict(diluted_data)
    THEN LET apy == IF TruthyDict(diluted_data)
                    THEN Get(diluted_data[1], "apy", F0)
                    ELSE Get(hist_data[1], "apy", F0)
             tvl == Get(hist_data[1], "tvl", F0)
         IN  IF IsNumber(apy) /\ IsNumber(tvl)
             THEN << YieldData(vault_address, PyFloat(apy), PyFloat(tvl),
                               _calculate_risk_score(apy, tvl), t) >>
             ELSE << >>
    ELSE << >>

\* get_multiple_vault_yields(vault_addresses, amount): answers[i] holds the
\* two answers of the yield service for vault_addresses[i], and t[j] is what
\* the j-th call of int(time.time()) returns.  The clock is read once for
\* each entry, when the entry is built, after the two requests for its vault.
RECURSIVE get_multiple_vault_yields(_, _, _)
get_multiple_vault_yields(vault_addresses, answers, t) ==
    IF vault_addresses = << >> THEN << >>
    ELSE LET k == Len(vault_addresses)
             yield_data_list ==
                 get_multiple_vault_yields(SubSeq(vault_addresses, 1, k - 1),
                                           answers, t)
         IN  yield_data_list
             \o VaultYields(vault_addresses[k], answers[k].hist,
                            answers[k].diluted, t[Len(yield_data_list) + 1])

\* the default of the parameter risk_free_rate of calculate_sharpe_ratio
RISK_FREE_RATE == Float(5, 100)

\* calculate_sharpe_ratio(yield_data, risk_free_rate = 0.05)
calculate_sharpe_ratio(yield_data) ==
    LET excess_return == FSub(FDiv(yield_data.apy, F100), RISK_FREE_RATE)
        volatility == FDiv(yield_data.risk_score, F100)
    IN  IF FEq(volatility, F0) THEN F0 ELSE FDiv(excess_return, volatility)

\* the score with an unrecognised mode ranking by APY
Score_FallbackApy(data, optimize_for) ==
    IF optimize_for = "sharpe" THEN calculate_sharpe_ratio(data)
    ELSE IF optimize_for = "apy" THEN data.apy
    ELSE IF optimize_for = "safety" THEN FNeg(data.risk_score)
    ELSE data.apy

\* the score of one entry in find_best_yield_opportunity
Score(data, optimize_for) ==
    IF optimize_for = "sharpe" THEN calculate_sharpe_ratio(data)
    ELSE IF optimize_for = "apy" THEN data.apy
    ELSE IF optimize_for = "safety" THEN FNeg(data.risk_score)
    ELSE calculate_sharpe_ratio(data)

\* the comparison of line 331 with >= in place of >
Better_OrEqual(score, best_score) == FGe(score, best_score)

\* find_best_yield_opportunity, line 331: score > best_score
Better(score, best_score) == FGt(score, best_score)

\* the ranking loop of find_best_yield_opportunity from entry i on;
\* best_vault is an Optional tuple (vault_address, data, score)
RECURSIVE BestFrom(_, _, _, _, _)
BestFrom(yield_data_list, i, best_vault, best_score, optimize_for) ==
    IF i > Len(yield_data_list) THEN best_vault
    ELSE LET data == yield_data_list[i]
             score == Score(data, optimize_for)
         IN  IF Better(score, best_score)
             THEN BestFrom(yield_data_list, i + 1,
                           Some([vault |-> data.vault_address, data |-> data,
                                 score |-> score]),
                           score, optimize_for)
             ELSE BestFrom(yield_data_list, i + 1, best_vault, best_score,
                           optimize_for)

\* find_best_yield_opportunity, lines 313-335: the ranking of the scanned
\* entries
RankList(yield_data_list, optimize_for) ==
    IF yield_data_list = << >> THEN None
    ELSE BestFrom(yield_data_list, 1, None, Inf(TRUE), optimize_for)

\* find_best_yield_opportunity(vault_addresses, amount, optimize_for)
find_best_yield_opportunity(vault_addresses, answers, t, optimize_for) ==
    RankList(get_multiple_vault_yields(vault_addresses, answers, t),
             optimize_for)

(***************************************************************************)
(* optimizer.py: HyperYieldOptimizer                                       *)
(***************************************************************************)
VARIABLES
    config,            \* OptimizerConfig: optimize_for, min_apy_diff,
                       \* check_interval
    current_vault,     \* self.current_vault
    current_apy,       \* self.current_apy
    last_check_time,   \* self.last_check_time
    rebalance_count,   \* self.rebalance_count
    pc,                \* where run() is
    now,               \* int(time.time())
    allocation,        \* run_optimization_cycle: allocation
    local_vault,       \* run_optimization_cycle: current_vault (the local)
    scan_amount,       \* this cycle: amount of find_best_opportunity
    scan_alloc_amount, \* this cycle: allocation['amount'] read at line 141
    result,            \* run_optimization_cycle: result
    alloc_failed,      \* this cycle: getCurrentAllocation raised at line 233
    gate_call,         \* this cycle: the call of should_rebalance
    execute_call,      \* this cycle: the call of execute_rebalance
    broadcasts,        \* this cycle: calls of send_raw_transaction
    cycle_outcome,     \* this cycle: how it ended
    at_start,          \* the OptimizerState when this cycle started
    trace,             \* this cycle: the external calls made, in order
    interrupted,       \* a KeyboardInterrupt was delivered
    success_receipts,  \* receipts with status 1 obtained so far
    last_success_target, \* target_vault of the latest such rebalance
    call,              \* the arguments of a function applied on its own
    ret                \* the value that function returned, once applied

vars == << config, current_vault, current_apy, last_check_time,
           rebalance_count, pc, now, allocation, local_vault, scan_amount,
           scan_alloc_amount, result, alloc_failed, gate_call,
           execute_call, broadcasts, cycle_outcome, at_start, trace,
           interrupted, success_receipts, last_success_target, call,
           ret >>

state == << current_vault, current_apy, last_check_time, rebalance_count >>
locals == << allocation, local_vault, result >>
history == << scan_amount, scan_alloc_amount, alloc_failed, gate_call,
              execute_call,
              broadcasts, cycle_outcome, at_start, trace >>
ledger == << success_receipts, last_success_target >>
pure == << call, ret >>

\* the n readings of the clock during a scan that starts at time from, none
\* earlier than the one before
Clocks(from, n) ==
    {t \in [1..n -> from..MaxTime] : \A i \in 1..(n - 1) : t[i] <= t[i + 1]}

\* OptimizerConfig.optimize_for; "other" stands for any unrecognised mode
OptimizeModes == {"sharpe", "apy", "safety", "other"}
\* OptimizerConfig.min_apy_diff: the default 0.5, and a negative threshold
MinApyDiffs == {FloatOfInt(-1), Float(1, 2)}

\* OptimizerConfig.check_interval: the default 300, a negative number of
\* seconds and 10^10 seconds; main() accepts any integer
CheckIntervals ==
    {IntOf(300), IntOf(-1), PyInt(FALSE, BMul(BOf(100000), BOf(100000)))}
\* the configurations: every mode and threshold with the default interval,
\* and the defaults of OptimizerConfig with the other intervals
Configs ==
    [optimize_for : OptimizeModes, min_apy_diff : MinApyDiffs,
     check_interval : {IntOf(300)}]
    \cup [optimize_for : {"sharpe"}, min_apy_diff : {Float(1, 2)},
          check_interval : CheckIntervals]

\* the largest time in nanoseconds that CPython holds: 2^63 - 1
PYTIME_MAX == BSub(BShl(<< 1 >>, 63), << 1 >>)
NS_PER_SECOND == BOf(1000000000)

\* time.sleep(secs) of an integer (CPython 3.11 on Linux): a negative secs
\* raises ValueError; the time to wake up, which is the reading of the
\* monotonic clock plus secs, is kept in nanoseconds, and when it exceeds
\* PYTIME_MAX the call raises OverflowError or OSError.  monotonic is the
\* reading of the monotonic clock in nanoseconds.
SleepAccepts(secs, monotonic) ==
    /\ ~secs.neg
    /\ BCmp(BAdd(BMul(secs.m, NS_PER_SECOND), monotonic), PYTIME_MAX) <= 0

\* the monotonic clock of the machine the loop runs on: up for an hour
MonotonicReadings == {BMul(BOf(3600), NS_PER_SECOND)}

\* the function f itself, held as a table of its values
Tabulated(f) == CHOOSE g \in {f} : g = f

\* the sleeps of run(): check_interval seconds after a cycle and 60 seconds
\* after an exception, lines 289 and 297
SleepCalls == (CheckIntervals \cup {IntOf(60)}) \X MonotonicReadings

\* whether time.sleep returns, for each of these, worked out once
SleepReturns ==
    Tabulated([c \in SleepCalls |-> SleepAccepts(c[1], c[2])])

\* str(n) of an integer n >= 0: its decimal digits
DigitChar(k) ==
    CASE k = 0 -> "0" [] k = 1 -> "1" [] k = 2 -> "2" [] k = 3 -> "3"
      [] k = 4 -> "4" [] k = 5 -> "5" [] k = 6 -> "6" [] k = 7 -> "7"
      [] k = 8 -> "8" [] k = 9 -> "9"

RECURSIVE Str(_)
Str(n) == IF n < 10 THEN << DigitChar(n) >>
          ELSE Str(n \div 10) \o << DigitChar(n % 10) >>

\* the literal "1000000000000" of find_best_opportunity
DEFAULT_AMOUNT ==
    << "1", "0", "0", "0", "0", "0", "0", "0", "0", "0", "0", "0", "0" >>

\* what getCurrentAllocation().call() can do: raise (None) or return
AllocationReads ==
    { None,
      Some([vault |-> ZERO_ADDRESS, amount |-> 0]),
      Some([vault |-> to_checksum_address(GLUEX_VAULTS[1]),
            amount |-> 5000000]),
      Some([vault |-> OTHER_VAULT, amount |-> 5000000]) }

\* what canRebalance().call() can do
CooldownReads == {"true", "false", "error"}

\* what the yield service answers for one vault: nothing (both calls return
\* None), or the figures of that vault.  Quotes[i] belongs to GLUEX_VAULTS[i];
\* the fourth answer has no "tvl" field, and the fifth quotes an APY of
\* Infinity, which response.json() accepts and turns into float('inf').
Dict2(apy, tvl) == [k \in {"apy", "tvl"} |-> IF k = "apy" THEN apy ELSE tvl]
Dict1(apy) == [k \in {"apy"} |-> apy]
NoAnswer == [hist |-> None, diluted |-> None]
Quotes ==
    << [hist |-> Some(Dict2(FloatOfInt(4), FloatOfInt(50000000))),
        diluted |-> Some(Dict1(FloatOfInt(4)))],
       [hist |-> Some(Dict2(FloatOfInt(5), F10M)),
        diluted |-> Some(Dict1(FloatOfInt(5)))],
       [hist |-> Some(Dict2(Float(43, 10), FloatOfInt(20000000))),
        diluted |-> Some(Dict1(Float(43, 10)))],
       [hist |-> Some(Dict1(Float(9, 2))), diluted |-> Some(Dict1(Float(9, 2)))],
       [hist |-> Some(Dict2(Inf(FALSE), FloatOfInt(60000000))),
        diluted |-> Some(Dict1(Inf(FALSE)))] >>
\* the answers of one scan when exactly the vaults in up are answered for
AnswersOf(up) ==
    [i \in DOMAIN GLUEX_VAULTS |-> IF i \in up THEN Quotes[i] ELSE NoAnswer]

\* how far execute_rebalance gets
ExecuteOutcomes == {"build_error", "nonce_error", "sign_error", "send_error",
                    "timeout", "status_0", "status_1"}

NoAllocation == [vault |-> NoneStr, amount |-> 0]

\* get_current_allocation(): read is what the contract call did
get_current_allocation(read) ==
    IF read = None THEN [vault |-> NoneStr, amount |-> 0] ELSE read[1]

\* can_rebalance() failing open: an error of the read counts as allowed
can_rebalance_FailOpen(read) ==
    IF read = "error" THEN TRUE ELSE read = "true"

\* can_rebalance(): read is what the contract call did
can_rebalance(read) ==
    IF read = "error" THEN FALSE ELSE read = "true"

\* should_rebalance without the test of the APY improvement
should_rebalance_NoThreshold(cur_vault, cur_apy, new_vault, new_apy, min_diff, cooldown) ==
    IF TruthyStr(cur_vault) /\ Lower(cur_vault) = Lower(new_vault)
    THEN [ret |-> FALSE, read |-> FALSE]
    ELSE IF ~can_rebalance(cooldown)
         THEN [ret |-> FALSE, read |-> TRUE]
         ELSE [ret |-> TRUE, read |-> TRUE]

\* should_rebalance(current_vault, current_apy, new_vault, new_apy), with
\* self.config.min_apy_diff and the outcome of the canRebalance call as
\* further arguments.  ret is the returned value, read tells whether
\* can_rebalance() was called at all.
should_rebalance(cur_vault, cur_apy, new_vault, new_apy, min_diff, cooldown) ==
    IF TruthyStr(cur_vault) /\ Lower(cur_vault) = Lower(new_vault)
    THEN [ret |-> FALSE, read |-> FALSE]
    ELSE LET apy_improvement == FSub(new_apy, cur_apy)
         IN  IF FLt(apy_improvement, min_diff)
             THEN [ret |-> FALSE, read |-> FALSE]
             ELSE IF ~can_rebalance(cooldown)
                  THEN [ret |-> FALSE, read |-> TRUE]
                  ELSE [ret |-> TRUE, read |-> TRUE]

\* execute_rebalance with the router and target arguments exchanged
execute_rebalance_WrongTarget(target_vault, amount, outcome) ==
    LET tx == [targetVault |-> ZERO_ADDRESS, amount |-> amount]
    IN  IF outcome \in {"build_error", "nonce_error", "sign_error"}
        THEN [sent |-> << >>, ret |-> FALSE, raised |-> FALSE, count |-> 0]
        ELSE [sent |-> <<tx>>, ret |-> outcome = "status_1", raised |-> FALSE,
              count |-> IF outcome = "status_1" THEN 1 ELSE 0]

\* execute_rebalance sending the transaction again after a failed send or a
\* timeout
execute_rebalance_Retry(target_vault, amount, outcome) ==
    LET tx == [targetVault |-> to_checksum_address(target_vault),
               amount |-> amount]
    IN  IF outcome \in {"build_error", "nonce_error", "sign_error"}
        THEN [sent |-> << >>, ret |-> FALSE, raised |-> FALSE, count |-> 0]
        ELSE IF outcome \in {"send_error", "timeout"}
        THEN [sent |-> <<tx, tx>>, ret |-> FALSE, raised |-> FALSE, count |-> 0]
        ELSE [sent |-> <<tx>>, ret |-> outcome = "status_1", raised |-> FALSE,
              count |-> IF outcome = "status_1" THEN 1 ELSE 0]

\* execute_rebalance counting the rebalance before it looks at the status
execute_rebalance_CountsFirst(target_vault, amount, outcome) ==
    LET tx == [targetVault |-> to_checksum_address(target_vault),
               amount |-> amount]
    IN  IF outcome \in {"build_error", "nonce_error", "sign_error"}
        THEN [sent |-> << >>, ret |-> FALSE, raised |-> FALSE, count |-> 0]
        ELSE IF outcome \in {"send_error", "timeout"}
        THEN [sent |-> <<tx>>, ret |-> FALSE, raised |-> FALSE, count |-> 0]
        ELSE [sent |-> <<tx>>, ret |-> outcome = "status_1", raised |-> FALSE,
              count |-> 1]

\* execute_rebalance whose except clause does not catch the timeout of
\* wait_for_transaction_receipt
execute_rebalance_Leaks(target_vault, amount, outcome) ==
    LET tx == [targetVault |-> to_checksum_address(target_vault),
               amount |-> amount]
    IN  IF outcome \in {"build_error", "nonce_error", "sign_error"}
        THEN [sent |-> << >>, ret |-> FALSE, raised |-> FALSE, count |-> 0]
        ELSE IF outcome = "send_error"
        THEN [sent |-> <<tx>>, ret |-> FALSE, raised |-> FALSE, count |-> 0]
        ELSE IF outcome = "timeout"
        THEN [sent |-> <<tx>>, ret |-> FALSE, raised |-> TRUE, count |-> 0]
        ELSE [sent |-> <<tx>>, ret |-> outcome = "status_1", raised |-> FALSE,
              count |-> IF outcome = "status_1" THEN 1 ELSE 0]

\* execute_rebalance without the increment of self.rebalance_count
execute_rebalance_NeverCounts(target_vault, amount, outcome) ==
    LET tx == [targetVault |-> to_checksum_address(target_vault),
               amount |-> amount]
    IN  IF outcome \in {"build_error", "nonce_error", "sign_error"}
        THEN [sent |-> << >>, ret |-> FALSE, raised |-> FALSE, count |-> 0]
        ELSE IF outcome \in {"send_error", "timeout"}
        THEN [sent |-> <<tx>>, ret |-> FALSE, raised |-> FALSE, count |-> 0]
        ELSE [sent |-> <<tx>>, ret |-> outcome = "status_1", raised |-> FALSE,
              count |-> 0]

\* execute_rebalance(target_vault, amount): outcome tells how far the try
\* block gets.  sent lists the transactions handed to send_raw_transaction,
\* ret is the returned value, raised tells whether an exception leaves the
\* function, count is the increment of self.rebalance_count.
execute_rebalance(target_vault, amount, outcome) ==
    LET tx == [targetVault |-> to_checksum_address(target_vault),
               amount |-> amount]
    IN  IF outcome \in {"build_error", "nonce_error", "sign_error"}
        THEN [sent |-> << >>, ret |-> FALSE, raised |-> FALSE, count |-> 0]
        ELSE IF outcome \in {"send_error", "timeout"}
        THEN [sent |-> <<tx>>, ret |-> FALSE, raised |-> FALSE, count |-> 0]
        ELSE IF outcome = "status_1"
        THEN [sent |-> <<tx>>, ret |-> TRUE, raised |-> FALSE, count |-> 1]
        ELSE [sent |-> <<tx>>, ret |-> FALSE, raised |-> FALSE, count |-> 0]

\* HyperYieldOptimizer.__init__ and the start of run()
Init ==
    /\ config \in Configs
    /\ current_vault = NoneStr
    /\ current_apy = F0
    /\ last_check_time = 0
    /\ rebalance_count = 0
    /\ pc = "loop"
    /\ now = 1
    /\ allocation = NoAllocation
    /\ local_vault = NoneStr
    /\ scan_amount = NoneStr
    /\ scan_alloc_amount = 0
    /\ result = None
    /\ alloc_failed = FALSE
    /\ gate_call = None
    /\ execute_call = None
    /\ broadcasts = 0
    /\ cycle_outcome = "none"
    /\ at_start = state
    /\ trace = << >>
    /\ interrupted = FALSE
    /\ success_receipts = 0
    /\ last_success_target = NoneStr
    /\ call = None
    /\ ret = None

\* the locals of run_optimization_cycle are gone when it returns
DropLocals ==
    /\ allocation' = NoAllocation
    /\ local_vault' = NoneStr
    /\ result' = None

\* the return on no yield data falling through to line 274
SkipCycle_Stamps ==
    /\ pc' = "sleep"
    /\ cycle_outcome' = "no_data"
    /\ DropLocals
    /\ last_check_time' = now
    /\ UNCHANGED << current_vault, current_apy, rebalance_count >>

\* run_optimization_cycle, lines 247-249: no yield data, the cycle returns
SkipCycle ==
    /\ pc' = "sleep"
    /\ cycle_outcome' = "no_data"
    /\ DropLocals
    /\ UNCHANGED state

\* the end of the cycle without the assignment of line 274
FinishCycle_NoStamp ==
    /\ last_check_time' = last_check_time
    /\ pc' = "sleep"
    /\ DropLocals

\* run_optimization_cycle, line 274, and the return to run()
FinishCycle ==
    /\ last_check_time' = now
    /\ pc' = "sleep"
    /\ DropLocals

\* what is recorded about a cycle is forgotten between cycles
ResetHistory ==
    /\ scan_amount' = NoneStr
    /\ scan_alloc_amount' = 0
    /\ alloc_failed' = FALSE
    /\ gate_call' = None
    /\ execute_call' = None
    /\ broadcasts' = 0
    /\ cycle_outcome' = "none"
    /\ at_start' = state
    /\ trace' = << >>

\* find_best_opportunity, line 142, without the fallback amount
RankAmount_NoDefault(a) == Str(a.amount)

\* find_best_opportunity, line 142: the amount handed to the yield client
RankAmount(a) == IF a.amount > 0 THEN Str(a.amount) ELSE DEFAULT_AMOUNT

\* find_best_opportunity, lines 141-149 with the allocation read last
CallsOfFindBest_ScanFirst == << "scan", "allocation" >>

\* find_best_opportunity, lines 141-149: the external calls it makes, in
\* order: get_current_allocation, then find_best_yield_opportunity
CallsOfFindBest == << "allocation", "scan" >>

\* run(), lines 284-286: the loop enters the try block and calls
\* run_optimization_cycle
StartCycle ==
    /\ pc = "loop"
    /\ pc' = "start"
    /\ UNCHANGED << config, state, now, locals, history, interrupted, ledger,
                    pure >>

\* run_optimization_cycle, lines 232-242: read the allocation
ReadAllocation ==
    /\ pc = "start"
    /\ \E read \in AllocationReads :
          LET a == get_current_allocation(read)
          IN  /\ allocation' = a
              /\ local_vault' =
                    IF TruthyStr(a.vault) /\ a.vault # ZERO_ADDRESS
                    THEN a.vault ELSE NoneStr
              /\ alloc_failed' = (read = None)
    /\ pc' = "scan"
    /\ scan_amount' = NoneStr
    /\ scan_alloc_amount' = 0
    /\ gate_call' = None
    /\ execute_call' = None
    /\ broadcasts' = 0
    /\ cycle_outcome' = "running"
    /\ at_start' = state
    /\ trace' = << "allocation" >>
    /\ UNCHANGED << config, state, now, result, interrupted, ledger, pure >>


\* the readings of the clock during a scan that starts at time from and
\* builds n entries
ScanClocks ==
    Tabulated([from \in 1..MaxTime |->
                  [n \in 0..Len(GLUEX_VAULTS) |-> Clocks(from, n)]])

\* the number of entries of the scan of GLUEX_VAULTS, which is the number of
\* times it reads the clock, when the yield service answers for the vaults
\* in up
LoopReadings ==
    Tabulated([up \in SUBSET (DOMAIN GLUEX_VAULTS) |->
                  Len(get_multiple_vault_yields(
                          GLUEX_VAULTS, AnswersOf(up),
                          [i \in DOMAIN GLUEX_VAULTS |-> 1]))])

\* what find_best_yield_opportunity returns in the loop, for each mode, each
\* set up of vaults the yield service answers for and each sequence t of
\* clock readings
LoopScans ==
    Tabulated(
        [optimize_for \in OptimizeModes |->
            [up \in SUBSET (DOMAIN GLUEX_VAULTS) |->
                [t \in ScanClocks[1][LoopReadings[up]] |->
                    find_best_yield_opportunity(GLUEX_VAULTS, AnswersOf(up),
                                                t, optimize_for)]]])

\* find_best_opportunity, called at line 245, and the test at lines 247-249;
\* the clock is read for each entry of the scan and may advance meanwhile, up
\* to the last reading
FindBestOpportunity ==
    /\ pc = "scan"
    /\ \E read \in AllocationReads :
          LET a == get_current_allocation(read)
              amount == RankAmount(a)
          IN  /\ scan_amount' = amount
              /\ scan_alloc_amount' = a.amount
              /\ trace' = trace \o CallsOfFindBest
              /\ \E up \in SUBSET (DOMAIN GLUEX_VAULTS) :
                    \E t \in ScanClocks[now][LoopReadings[up]] :
                       \E best \in {LoopScans[config.optimize_for][up][t]} :
                           /\ now' = IF t = << >> THEN now ELSE t[Len(t)]
                           /\ IF best = None
                              THEN SkipCycle
                              ELSE /\ pc' = "gate"
                                   /\ result' = best
                                   /\ UNCHANGED << state, cycle_outcome,
                                                   allocation, local_vault >>
    /\ UNCHANGED << config, alloc_failed, gate_call, execute_call,
                    broadcasts, at_start, interrupted, ledger, pure >>

\* the gate comparing against the APY the yield service quotes for the vault
\* held on-chain instead of self.current_apy
Gate_FreshApy ==
    /\ pc = "gate"
    /\ \E cooldown \in CooldownReads :
          LET target_vault == result[1].vault
              yield_data == result[1].data
              cur == IF TruthyStr(local_vault) THEN local_vault ELSE EmptyStr
              held == {i \in DOMAIN GLUEX_VAULTS :
                          GLUEX_VAULTS[i] = Lower(cur)}
              fresh_apy == IF held = {} THEN F0
                           ELSE Quotes[CHOOSE i \in held : TRUE].diluted[1].apy
              r == should_rebalance(cur, fresh_apy, target_vault,
                                    yield_data.apy, config.min_apy_diff,
                                    cooldown)
          IN  /\ gate_call' =
                    Some([current_vault |-> cur, current_apy |-> fresh_apy,
                          new_vault |-> target_vault,
                          new_apy |-> yield_data.apy,
                          min_apy_diff |-> config.min_apy_diff,
                          cooldown |-> IF r.read THEN cooldown ELSE "none",
                          ret |-> r.ret])
              /\ trace' = trace \o << "gate" >>
                             \o (IF r.read THEN << "cooldown" >> ELSE << >>)
              /\ IF r.ret
                 THEN /\ pc' = "execute"
                      /\ UNCHANGED << last_check_time, cycle_outcome, locals >>
                 ELSE /\ cycle_outcome' = "gate_refused"
                      /\ FinishCycle
    /\ UNCHANGED << config, current_vault, current_apy, rebalance_count, now,
                    scan_amount, scan_alloc_amount, alloc_failed,
                    execute_call, broadcasts, at_start, interrupted, ledger,
                    pure >>

\* run_optimization_cycle, lines 258-264: should_rebalance decides; when it
\* refuses, the cycle ends at line 274
Gate ==
    /\ pc = "gate"
    /\ \E cooldown \in CooldownReads :
          LET target_vault == result[1].vault
              yield_data == result[1].data
              cur == IF TruthyStr(local_vault) THEN local_vault ELSE EmptyStr
              r == should_rebalance(cur, current_apy, target_vault,
                                    yield_data.apy, config.min_apy_diff,
                                    cooldown)
          IN  /\ gate_call' =
                    Some([current_vault |-> cur, current_apy |-> current_apy,
                          new_vault |-> target_vault,
                          new_apy |-> yield_data.apy,
                          min_apy_diff |-> config.min_apy_diff,
                          cooldown |-> IF r.read THEN cooldown ELSE "none",
                          ret |-> r.ret])
              /\ trace' = trace \o << "gate" >>
                             \o (IF r.read THEN << "cooldown" >> ELSE << >>)
              /\ IF r.ret
                 THEN /\ pc' = "execute"
                      /\ UNCHANGED << last_check_time, cycle_outcome, locals >>
                 ELSE /\ cycle_outcome' = "gate_refused"
                      /\ FinishCycle
    /\ UNCHANGED << config, current_vault, current_apy, rebalance_count, now,
                    scan_amount, scan_alloc_amount, alloc_failed,
                    execute_call, broadcasts,
                    at_start, interrupted, ledger, pure >>

\* execute_rebalance is over: an exception that leaves it is caught in run()
\* (line 294); on True the cycle goes on to line 270, on False to line 274
ExecuteReturns(e) ==
    IF e.raised
    THEN /\ pc' = "backoff"
         /\ cycle_outcome' = "exception"
         /\ DropLocals
    ELSE /\ pc' = IF e.ret THEN "assign_vault" ELSE "stamp"
         /\ UNCHANGED << cycle_outcome, locals >>

\* the call of execute_rebalance that is under way, as execute_call records
\* it
ExecuteUnderWay ==
    execute_rebalance(execute_call[1].target_vault, execute_call[1].amount,
                      execute_call[1].outcome)

\* run_optimization_cycle, lines 265-269, and execute_rebalance, lines
\* 190-208: the transaction is built, signed and handed to
\* send_raw_transaction.  outcome is how far this call will get; after a
\* failure before or in the send the function is over, otherwise it waits
\* for the receipt.
ExecuteRebalance ==
    /\ pc = "execute"
    /\ \E outcome \in ExecuteOutcomes :
          LET target_vault == result[1].vault
              current_amount == allocation.amount
              rebalance_amount == IF current_amount > 0 THEN current_amount
                                  ELSE 1000000000
              e == execute_rebalance(target_vault, rebalance_amount, outcome)
          IN  /\ e.count > 0 => rebalance_count < MaxRebalances
              /\ outcome = "status_1" => success_receipts < MaxRebalances
              /\ execute_call' = Some([target_vault |-> target_vault,
                                       amount |-> rebalance_amount,
                                       outcome |-> outcome,
                                       sent |-> e.sent,
                                       ret |-> e.ret, raised |-> e.raised])
              /\ broadcasts' = broadcasts + Len(e.sent)
              /\ IF outcome \in {"build_error", "nonce_error", "sign_error",
                                 "send_error"}
                 THEN ExecuteReturns(e)
                 ELSE /\ pc' = "receipt"
                      /\ UNCHANGED << cycle_outcome, locals >>
    /\ trace' = trace \o << "execute" >>
    /\ UNCHANGED << config, state, now, scan_amount, scan_alloc_amount,
                    alloc_failed, gate_call, at_start, interrupted, ledger,
                    pure >>

\* execute_rebalance, lines 213-215 and 219-225: wait_for_transaction_receipt
\* returns a receipt or raises
WaitReceipt ==
    /\ pc = "receipt"
    /\ success_receipts' = IF execute_call[1].outcome = "status_1"
                           THEN success_receipts + 1
                           ELSE success_receipts
    /\ last_success_target' = IF execute_call[1].outcome = "status_1"
                              THEN execute_call[1].target_vault
                              ELSE last_success_target
    /\ IF ExecuteUnderWay.count > 0
       THEN /\ pc' = "count"
            /\ UNCHANGED << cycle_outcome, locals >>
       ELSE ExecuteReturns(ExecuteUnderWay)
    /\ UNCHANGED << config, state, now, scan_amount, scan_alloc_amount,
                    alloc_failed, gate_call, execute_call, broadcasts,
                    at_start, trace, interrupted, pure >>

\* execute_rebalance, lines 216-218: self.rebalance_count += 1, return True
CountRebalance ==
    /\ pc = "count"
    /\ rebalance_count' = rebalance_count + ExecuteUnderWay.count
    /\ ExecuteReturns(ExecuteUnderWay)
    /\ UNCHANGED << config, current_vault, current_apy, last_check_time, now,
                    scan_amount, scan_alloc_amount, alloc_failed, gate_call,
                    execute_call, broadcasts, at_start, trace, interrupted,
                    ledger, pure >>

\* run_optimization_cycle, line 270: self.current_vault = target_vault
AssignVault ==
    /\ pc = "assign_vault"
    /\ current_vault' = result[1].vault
    /\ pc' = "assign_apy"
    /\ UNCHANGED << config, current_apy, last_check_time, rebalance_count,
                    now, locals, history, interrupted, ledger, pure >>

\* run_optimization_cycle, lines 271-272: self.current_apy = yield_data.apy
AssignApy ==
    /\ pc = "assign_apy"
    /\ current_apy' = result[1].data.apy
    /\ pc' = "stamp"
    /\ UNCHANGED << config, current_vault, last_check_time, rebalance_count,
                    now, locals, history, interrupted, ledger, pure >>

\* run_optimization_cycle, line 274, after execute_rebalance was called
StampCheckTime ==
    /\ pc = "stamp"
    /\ cycle_outcome' = IF execute_call[1].ret THEN "exec_ok"
                        ELSE "exec_failed"
    /\ FinishCycle
    /\ UNCHANGED << config, current_vault, current_apy, rebalance_count, now,
                    scan_amount, scan_alloc_amount, alloc_failed, gate_call,
                    execute_call, broadcasts, at_start, trace, interrupted,
                    ledger, pure >>

\* run(), lines 288-289 and 284: the sleep of check_interval seconds ends
\* and the loop goes round
Wake ==
    /\ pc = "sleep"
    /\ \E monotonic \in MonotonicReadings :
          SleepReturns[<< config.check_interval, monotonic >>]
    /\ pc' = "loop"
    /\ ResetHistory
    /\ UNCHANGED << config, state, now, locals, interrupted, ledger, pure >>

\* run(), lines 289 and 294-297: time.sleep raises for a check_interval it
\* does not accept, after the cycle returned; the except Exception clause
\* of the loop catches it
SleepRaises ==
    /\ pc = "sleep"
    /\ \E monotonic \in MonotonicReadings :
          ~SleepReturns[<< config.check_interval, monotonic >>]
    /\ pc' = "backoff"
    /\ UNCHANGED << config, state, now, locals, history, interrupted, ledger,
                    pure >>

\* run() without the except Exception clause: the exception ends the loop
CycleException_Breaks ==
    /\ pc \in {"start", "scan", "gate", "execute"}
    /\ pc' = "aborted"
    /\ cycle_outcome' = "exception"
    /\ DropLocals
    /\ UNCHANGED << config, state, now, scan_amount, scan_alloc_amount,
                    alloc_failed, gate_call,
                    execute_call, broadcasts, at_start, trace, interrupted,
                    ledger, pure >>

\* run(), lines 294-297: an exception other than those handled inside the
\* cycle leaves run_optimization_cycle and is caught at the loop
CycleException ==
    /\ pc \in {"start", "scan", "gate", "execute"}
    /\ pc' = "backoff"
    /\ cycle_outcome' = "exception"
    /\ DropLocals
    /\ UNCHANGED << config, state, now, scan_amount, scan_alloc_amount,
                    alloc_failed, gate_call,
                    execute_call, broadcasts, at_start, trace, interrupted,
                    ledger, pure >>

\* run(), lines 297 and 284: the sleep of 60 seconds ends and the loop goes
\* round
BackoffWake ==
    /\ pc = "backoff"
    /\ \E monotonic \in MonotonicReadings :
          SleepReturns[<< IntOf(60), monotonic >>]
    /\ pc' = "loop"
    /\ ResetHistory
    /\ UNCHANGED << config, state, now, locals, interrupted, ledger, pure >>

\* the positions of run() inside its try block, lines 285-289
InTry == {"start", "scan", "gate", "execute", "receipt", "count",
          "assign_vault", "assign_apy", "stamp", "sleep"}

\* a KeyboardInterrupt is delivered.  Inside the try block it is caught at
\* line 291 and run() takes its shutdown path; anywhere else in run() it
\* leaves run(): before the loop and on the way round it (lines 278-284),
\* in the except Exception clause with its sleep (lines 295-297), and on
\* the shutdown path itself (lines 292-299).
KeyboardInterrupt ==
    /\ pc \in InTry \cup {"loop", "backoff", "shutdown"}
    /\ pc' = IF pc \in InTry THEN "shutdown" ELSE "aborted"
    /\ interrupted' = TRUE
    /\ DropLocals
    /\ ResetHistory
    /\ UNCHANGED << config, state, now, ledger, pure >>

\* run(), lines 292-293 and 299: the shutdown is logged and run() returns
Shutdown ==
    /\ pc = "shutdown"
    /\ pc' = "stopped"
    /\ UNCHANGED << config, state, now, locals, history, interrupted, ledger,
                    pure >>

\* time passes
Tick ==
    /\ pc \notin {"stopped", "aborted"}
    /\ now < MaxTime
    /\ now' = now + 1
    /\ UNCHANGED << config, state, pc, locals, history, interrupted, ledger,
                    pure >>

Next ==
    \/ StartCycle
    \/ ReadAllocation
    \/ FindBestOpportunity
    \/ Gate
    \/ ExecuteRebalance
    \/ WaitReceipt
    \/ CountRebalance
    \/ AssignVault
    \/ AssignApy
    \/ StampCheckTime
    \/ Wake
    \/ SleepRaises
    \/ CycleException
    \/ BackoffWake
    \/ KeyboardInterrupt
    \/ Shutdown
    \/ Tick

Spec == Init /\ [][Next]_vars

\* Straight-line code runs on, every sleep ends and the shutdown path runs
\* to its end.  The steps that call out over the network are under no
\* obligation to return: requests.Session.post is called without a timeout
\* (gluex_client.py:96 and 128), so a cycle may stay in its scan for ever.
\* Interrupts, exceptions and the clock are under no obligation either.
Fairness ==
    /\ WF_vars(StartCycle)
    /\ WF_vars(CountRebalance)
    /\ WF_vars(AssignVault)
    /\ WF_vars(AssignApy)
    /\ WF_vars(StampCheckTime)
    /\ WF_vars(Wake)
    /\ WF_vars(SleepRaises)
    /\ WF_vars(BackoffWake)
    /\ WF_vars(Shutdown)

FairSpec == Spec /\ Fairness

TypeOK ==
    /\ pc \in InTry \cup {"loop", "backoff", "shutdown", "stopped", "aborted"}
    /\ rebalance_count \in 0..MaxRebalances
    /\ now \in 1..MaxTime
    /\ last_check_time \in 0..MaxTime
    /\ broadcasts \in 0..1

(***************************************************************************)
(* The functions of GlueXClient applied on their own                       *)
(***************************************************************************)
\* the variables of the polling loop
loop == << config, state, pc, now, locals, history, interrupted,
          ledger >>

\* an optimizer as constructed, its loop not running
LoopNotStarted ==
    /\ config = [optimize_for |-> "sharpe", min_apy_diff |-> Float(1, 2),
                 check_interval |-> IntOf(300)]
    /\ current_vault = NoneStr
    /\ current_apy = F0
    /\ last_check_time = 0
    /\ rebalance_count = 0
    /\ pc = "loop"
    /\ now = 1
    /\ allocation = NoAllocation
    /\ local_vault = NoneStr
    /\ scan_amount = NoneStr
    /\ scan_alloc_amount = 0
    /\ result = None
    /\ alloc_failed = FALSE
    /\ gate_call = None
    /\ execute_call = None
    /\ broadcasts = 0
    /\ cycle_outcome = "none"
    /\ at_start = state
    /\ trace = << >>
    /\ interrupted = FALSE
    /\ success_receipts = 0
    /\ last_success_target = NoneStr

\* all sequences over S of length at most n
SeqsUpTo(S, n) == UNION {[1..k -> S] : k \in 0..n}

\* --- _calculate_risk_score ---
\* the ints 2^53 + 1 = 9007199254740993 and -(2^53 + 1), the smallest in
\* size that no float holds: float() rounds them to 2^53 in size
BigInt(neg) == PyInt(neg, BAdd(BShl(<< 1 >>, 53), << 1 >>))
\* the ints -6677100440588825656 and -6677100440588826001, which float()
\* rounds to the same float and whose quotients by 100 round to two floats
BigIntA == PyInt(TRUE, << 13368, 9677, 19941, 25934, 5 >>)
BigIntB == PyInt(TRUE, << 13713, 9677, 19941, 25934, 5 >>)
\* the int 2^1024, which float() refuses with OverflowError
HugeInt == PyInt(FALSE, BShl(<< 1 >>, 1024))

\* APYs in percent: negative, zero, below, at and above the cap of 100, with
\* and without a finite binary expansion, infinite and not a number, and
\* ints of more than 53 bits
RiskApys == {FloatOfInt(-50), FloatOfInt(-1), F0, Float(1, 2), Float(37, 10),
             FloatOfInt(4), Float(97, 10), F50, F100, FloatOfInt(150),
             Inf(FALSE), NaN, BigInt(TRUE), BigInt(FALSE)}
\* TVLs: negative, zero, below, at and above the 50M where the term reaches
\* 0, and an int of more than 53 bits
RiskTvls == {FloatOfInt(-10000000), F0, FloatOfInt(5000000),
             FloatOfInt(25000000), FloatOfInt(45000000),
             FloatOfInt(50000000), FloatOfInt(60000000), BigInt(FALSE)}

\* two arguments for each parameter, to compare the scores
RiskCalls == [apy : RiskApys, tvl : RiskTvls, apy2 : RiskApys, tvl2 : RiskTvls]

RiskInit ==
    /\ LoopNotStarted
    /\ call \in RiskCalls
    /\ ret = None

\* _calculate_risk_score(apy, tvl), and the same with one argument exchanged
RiskApply ==
    /\ ret = None
    /\ ret' = Some([score |-> _calculate_risk_score(call.apy, call.tvl),
                    other_apy |-> _calculate_risk_score(call.apy2, call.tvl),
                    other_tvl |-> _calculate_risk_score(call.apy, call.tvl2)])
    /\ UNCHANGED << call, loop >>

RiskNext == RiskApply

RiskSpec == RiskInit /\ [][RiskNext]_vars

\* --- the score of one entry ---
ScoreApys == {FloatOfInt(-50), F0, FloatOfInt(4), Float(43, 10),
              FloatOfInt(5), F10, FloatOfInt(150), Inf(FALSE), NaN}
ScoreRisks == {FloatOfInt(-25), F0, FloatOfInt(2), Float(685, 100),
               FloatOfInt(25), F50, F100}

ScoreCalls ==
    [data : {YieldData(GLUEX_VAULTS[1], apy, F0, risk, 1) :
                 apy \in ScoreApys, risk \in ScoreRisks},
     optimize_for : OptimizeModes]

ScoreInit ==
    /\ LoopNotStarted
    /\ call \in ScoreCalls
    /\ ret = None

\* find_best_yield_opportunity, lines 320-327: the score of one entry
ScoreApply ==
    /\ ret = None
    /\ ret' = Some(Score(call.data, call.optimize_for))
    /\ UNCHANGED << call, loop >>

ScoreNext == ScoreApply

ScoreSpec == ScoreInit /\ [][ScoreNext]_vars

\* --- should_rebalance ---
\* the vault held: none, the first vault in checksum case, the second
GateHeld == {EmptyStr, to_checksum_address(GLUEX_VAULTS[1]), GLUEX_VAULTS[2]}
\* APYs: 0.6 - 0.1 and 8.2 - 7.7 are 0.5 in decimal, and as floats the first
\* difference is rounded to 0.5 and the second is 0.4999999999999991
GateApys == {F0, Float(1, 10), Float(6, 10), FloatOfInt(4), Float(9, 2),
             Float(77, 10), Float(82, 10), Inf(FALSE), Inf(TRUE), NaN}

GateCalls ==
    [current_vault : GateHeld, current_apy : GateApys,
     new_vault : {GLUEX_VAULTS[1], GLUEX_VAULTS[2]}, new_apy : GateApys,
     min_apy_diff : MinApyDiffs, cooldown : CooldownReads]

GateInit ==
    /\ LoopNotStarted
    /\ call \in GateCalls
    /\ ret = None

\* should_rebalance(current_vault, current_apy, new_vault, new_apy)
GateApply ==
    /\ ret = None
    /\ ret' = Some(should_rebalance(call.current_vault, call.current_apy,
                                    call.new_vault, call.new_apy,
                                    call.min_apy_diff, call.cooldown))
    /\ UNCHANGED << call, loop >>

GateNext == GateApply

GateSpec == GateInit /\ [][GateNext]_vars

\* --- get_multiple_vault_yields ---
\* a JSON object without fields
EmptyDict == [k \in {} |-> JNull]
\* a JSON object with a "tvl" field only
DictTvl(tvl) == [k \in {"tvl"} |-> tvl]

\* what the yield service can answer for one vault
ScanAnswers ==
    { NoAnswer,
      [hist |-> Some(Dict2(FloatOfInt(4), FloatOfInt(50000000))), diluted |-> None],
      [hist |-> None, diluted |-> Some(Dict1(FloatOfInt(4)))],
      [hist |-> Some(EmptyDict), diluted |-> Some(Dict1(FloatOfInt(4)))],
      [hist |-> Some(Dict2(FloatOfInt(4), FloatOfInt(50000000))), diluted |-> Some(Dict1(FloatOfInt(5)))],
      [hist |-> Some(Dict2(FloatOfInt(4), JNull)), diluted |-> Some(Dict1(FloatOfInt(4)))],
      [hist |-> Some(Dict1(Float(9, 2))), diluted |-> Some(DictTvl(F1))],
      [hist |-> Some(Dict2(FloatOfInt(-50), FloatOfInt(60000000))),
       diluted |-> Some(Dict1(FloatOfInt(-50)))],
      [hist |-> Some(Dict2(FloatOfInt(150), F0)), diluted |-> Some(Dict1(FloatOfInt(150)))],
      [hist |-> Some(Dict2(BigInt(TRUE), IntOf(50000000))),
       diluted |-> Some(Dict1(BigInt(TRUE)))],
      [hist |-> Some(Dict2(HugeInt, IntOf(50000000))),
       diluted |-> Some(Dict1(HugeInt))] }

\* the first k vaults of the whitelist, each with its answers, and the
\* successive readings of the clock
ScanCalls(k) ==
    { [vault_addresses |-> SubSeq(GLUEX_VAULTS, 1, k),
       answers |-> a, times |-> t] :
          a \in [1..k -> ScanAnswers], t \in Clocks(1, k) }

ScanInit ==
    /\ LoopNotStarted
    /\ \E k \in 0..MaxScan : call \in ScanCalls(k)
    /\ ret = None

\* get_multiple_vault_yields(vault_addresses, amount)
ScanApply ==
    /\ ret = None
    /\ ret' = Some(get_multiple_vault_yields(call.vault_addresses,
                                             call.answers, call.times))
    /\ UNCHANGED << call, loop >>

ScanNext == ScanApply

ScanSpec == ScanInit /\ [][ScanNext]_vars

\* --- the ranking of find_best_yield_opportunity ---
\* the figures of a scanned entry: APY and TVL.  The first five give equal
\* scores in every mode: APY 5 has Sharpe ratio 0 at any risk, and so has
\* risk 0 at any APY.  3.7 at 45M and 9.7 at 48M have the same risk score
\* 6.85 in decimal, and as floats 6.8500000000000005 and 6.85.  An APY of
\* -inf is what json gives for a number such as -1e400, an APY that is not
\* a number what it gives for NaN.  The last two are JSON integers: the
\* entries hold the same APY -6.677100440588826e+18 and the risk scores
\* -3.338550220294413e+18 and -3.3385502202944133e+18.
RankFigures ==
    { [apy |-> FloatOfInt(5), tvl |-> FloatOfInt(50000000)],
      [apy |-> FloatOfInt(5), tvl |-> FloatOfInt(25000000)],
      [apy |-> F10, tvl |-> FloatOfInt(50000000)],
      [apy |-> F0, tvl |-> FloatOfInt(50000000)],
      [apy |-> F0, tvl |-> FloatOfInt(60000000)],
      [apy |-> Float(37, 10), tvl |-> FloatOfInt(45000000)],
      [apy |-> Float(97, 10), tvl |-> FloatOfInt(48000000)],
      [apy |-> Inf(TRUE), tvl |-> FloatOfInt(50000000)],
      [apy |-> NaN, tvl |-> FloatOfInt(50000000)],
      [apy |-> BigIntA, tvl |-> IntOf(50000000)],
      [apy |-> BigIntB, tvl |-> IntOf(50000000)] }

\* the risk score of each of the figures, worked out once
RankRisks ==
    Tabulated([f \in RankFigures |-> _calculate_risk_score(f.apy, f.tvl)])

\* the entry a scan returns for the i-th vault when the yield service
\* answers the figures f for it, lines 168-174
EntryOf(f, i) ==
    YieldData(GLUEX_VAULTS[i], PyFloat(f.apy), PyFloat(f.tvl), RankRisks[f], 1)

\* the list a scan of the first vaults returns for the figures f
EntriesOf(f) == [i \in DOMAIN f |-> EntryOf(f[i], i)]

\* the lists of at most n entries, each with every mode
RankCalls(n) ==
    { [yield_data_list |-> l, optimize_for |-> m] :
          l \in {EntriesOf(f) : f \in SeqsUpTo(RankFigures, n)},
          m \in OptimizeModes }

\* the score of each of these entries in each mode, worked out once
RankScores ==
    Tabulated([c \in {EntryOf(f, i) : f \in RankFigures, i \in 1..MaxScan}
                         \X OptimizeModes |-> Score(c[1], c[2])])

RankInit ==
    /\ LoopNotStarted
    /\ call \in RankCalls(MaxScan)
    /\ ret = None

\* find_best_yield_opportunity, lines 313-335, on the list the scan returned
RankApply ==
    /\ ret = None
    /\ ret' = Some(RankList(call.yield_data_list, call.optimize_for))
    /\ UNCHANGED << call, loop >>

RankNext == RankApply

RankSpec == RankInit /\ [][RankNext]_vars

(***************************************************************************)
(* Properties                                                              *)
(***************************************************************************)
\* C1: in every cycle execute_rebalance is called, and a transaction is
\* sent, only if the canRebalance read of that cycle returned true; when the
\* read raised or returned false nothing is executed or sent in the cycle.
C1_ExecuteOnlyAfterCooldownOk ==
    /\ (execute_call # None \/ broadcasts > 0) =>
          (gate_call # None /\ gate_call[1].cooldown = "true")
    /\ (gate_call # None /\ gate_call[1].cooldown \in {"false", "error"}) =>
          /\ execute_call = None /\ broadcasts = 0
          /\ pc \notin {"execute", "receipt", "count", "assign_vault",
                        "assign_apy", "stamp"}

\* a transaction was sent in a cycle whose canRebalance read returned true
C1_Witness ==
    /\ gate_call # None /\ gate_call[1].cooldown = "true"
    /\ execute_call # None /\ broadcasts = 1

\* C2 (as claimed): a cycle in which the getCurrentAllocation read failed,
\* the canRebalance read failed or the scan returned no data neither calls
\* execute_rebalance nor sends a transaction.
C2_FailClosed ==
    (\/ alloc_failed
     \/ (gate_call # None /\ gate_call[1].cooldown = "error")
     \/ cycle_outcome = "no_data")
    => (execute_call = None /\ broadcasts = 0)

\* C3 (as claimed): should_rebalance returns true exactly when the current
\* vault is empty or differs from the candidate ignoring case, the
\* candidate's APY less the current APY is at least min_apy_diff, and the
\* cooldown read is true.
C3_ShouldRebalanceIff ==
    ret # None =>
        LET same == TruthyStr(call.current_vault)
                    /\ Lower(call.current_vault) = Lower(call.new_vault)
        IN  ret[1].ret = (/\ ~same
                          /\ FGe(FSub(call.new_apy, call.current_apy),
                                 call.min_apy_diff)
                          /\ call.cooldown = "true")

\* C4: every transaction sent targets one of the addresses of GLUEX_VAULTS
\* (a constant of the program), written in checksum case.
C4_TargetsWhitelisted ==
    execute_call # None =>
        \A i \in DOMAIN execute_call[1].sent :
            Lower(execute_call[1].sent[i].targetVault) \in Range(GLUEX_VAULTS)

\* a transaction was sent
C4_Witness ==
    /\ execute_call # None
    /\ execute_call[1].sent # << >>
    /\ rebalance_count = MaxRebalances

\* C5: at most one transaction is sent per cycle; a failed or timed-out
\* attempt is not repeated.
C5_AtMostOneBroadcast == broadcasts <= 1

\* the one attempt of a cycle timed out and the cycle is over
C5_Witness ==
    /\ execute_call # None
    /\ execute_call[1].outcome = "timeout"
    /\ broadcasts = 1
    /\ pc = "sleep"

\* C6: current_vault, current_apy and rebalance_count differ from their
\* values at the start of the cycle only if the receipt of this cycle's
\* rebalance reported success.
C6_StateChangesOnlyOnSuccess ==
    << current_vault, current_apy, rebalance_count >>
        # << at_start[1], at_start[2], at_start[4] >>
    => (/\ execute_call # None
        /\ execute_call[1].outcome = "status_1"
        /\ execute_call[1].ret)

\* after an earlier success, a failed receipt left the three fields alone
C6_Witness ==
    /\ execute_call # None
    /\ execute_call[1].outcome = "status_0"
    /\ rebalance_count > 0
    /\ << current_vault, current_apy, rebalance_count >>
          = << at_start[1], at_start[2], at_start[4] >>

\* C7: a cycle whose scan returned no entries leaves the four fields of the
\* state as they were and calls neither should_rebalance (so no cooldown
\* read) nor execute_rebalance.
C7_NoDataLeavesState ==
    cycle_outcome = "no_data" =>
        /\ state = at_start
        /\ gate_call = None
        /\ execute_call = None
        /\ broadcasts = 0

\* a cycle without data ended, later than the last completed check
C7_Witness ==
    /\ cycle_outcome = "no_data"
    /\ pc = "sleep"
    /\ last_check_time > 0
    /\ last_check_time < now

\* the cycle returns to run() in this step
CycleEnds ==
    /\ cycle_outcome = "running"
    /\ cycle_outcome' \in {"no_data", "gate_refused", "exec_failed", "exec_ok"}

\* C8 (as claimed): every cycle that returns, whatever its outcome, sets
\* last_check_time to the current time.
C8_AlwaysStamped == [][CycleEnds => last_check_time' = now]_vars

\* C8 (amended): a cycle that got a candidate from the scan sets
\* last_check_time to the current time whether the gate refused, the
\* execution failed or it succeeded; a cycle without yield data leaves it.
C8_StampedAfterScan ==
    [][/\ (CycleEnds /\ cycle_outcome' # "no_data")
            => last_check_time' = now
       /\ (CycleEnds /\ cycle_outcome' = "no_data")
            => last_check_time' = last_check_time]_vars

\* a refused cycle has just set last_check_time, which was older before
C8_Witness ==
    /\ cycle_outcome = "gate_refused"
    /\ last_check_time = now
    /\ at_start[3] < now

\* C9: execute_rebalance returns true exactly when a receipt was obtained
\* and its status is 1; otherwise it returns false; it never raises.
C9_ExecuteResult ==
    execute_call # None =>
        /\ ~execute_call[1].raised
        /\ execute_call[1].ret = (execute_call[1].outcome = "status_1")

\* a call of execute_rebalance timed out and returned false
C9_Witness ==
    /\ execute_call # None
    /\ execute_call[1].outcome = "timeout"
    /\ ~execute_call[1].ret
    /\ cycle_outcome = "exec_failed"

\* C10: the loop never ends because of an error: run() is left only after a
\* KeyboardInterrupt, an exception that leaves a cycle takes the loop to its
\* backoff, and unless a KeyboardInterrupt is delivered, the sleep after a
\* cycle that returned and the backoff after a cycle that raised are each
\* followed by the start of another cycle.
C10_LoopKeepsCycling ==
    /\ [](pc \in {"shutdown", "stopped", "aborted"} => interrupted)
    /\ [][(cycle_outcome # "exception" /\ cycle_outcome' = "exception")
            => pc' = "backoff"]_vars
    /\ []((pc \in {"sleep", "backoff"} /\ ~interrupted)
            => <>(pc = "start" \/ interrupted))

\* an exception left a cycle and the loop is in its backoff
C10_Witness ==
    /\ pc = "backoff"
    /\ cycle_outcome = "exception"
    /\ ~interrupted

\* C11 (as claimed): a KeyboardInterrupt ends the loop through the shutdown
\* path of run(), in whichever phase it arrives (cycle, sleep or backoff):
\* the first one delivered in any of these is caught and does not leave
\* run().
C11_CleanShutdown ==
    [][(/\ ~interrupted
        /\ interrupted'
        /\ pc \in InTry \cup {"backoff"}) => pc' = "shutdown"]_vars

\* the position of a call in the order of a cycle
StepRank(step) ==
    CASE step = "allocation" -> 1
      [] step = "scan" -> 2
      [] step = "gate" -> 3
      [] step = "cooldown" -> 4
      [] step = "execute" -> 5

\* C12: within a cycle the calls are made one after the other in the order
\* allocation read(s), scan, gate (with its cooldown read), execute; a later
\* one is made only after the earlier ones, and each of scan, gate and
\* execute at most once.
C12_StepsInOrder ==
    /\ \A i, j \in DOMAIN trace :
          i < j => /\ StepRank(trace[i]) <= StepRank(trace[j])
                   /\ trace[i] = trace[j] => trace[i] = "allocation"
    /\ \A j \in DOMAIN trace :
          trace[j] # "allocation" =>
              \E i \in 1..(j - 1) : StepRank(trace[i]) = StepRank(trace[j]) - 1

\* a cycle went through all its steps
C12_Witness ==
    /\ trace = << "allocation", "allocation", "scan", "gate", "cooldown",
                  "execute" >>
    /\ pc = "sleep"

\* C19: the gate is called with the persisted self.current_apy, which is 0
\* until this process has rebalanced, and never with an APY read for the
\* vault held on-chain; so while current_apy is 0, a candidate that differs
\* from the held vault and whose APY reaches min_apy_diff is accepted exactly
\* when the cooldown read allows it.
C19_GateUsesPersistedApy ==
    /\ rebalance_count = 0 => current_apy = F0
    /\ gate_call # None =>
          LET g == gate_call[1]
          IN  /\ g.current_apy = at_start[2]
              /\ ( /\ g.current_apy = F0
                   /\ Lower(g.current_vault) # Lower(g.new_vault)
                   /\ FGe(g.new_apy, g.min_apy_diff) )
                 => /\ g.cooldown # "none"
                    /\ g.ret = (g.cooldown = "true")

\* in the first cycle the vault held on-chain is quoted at 4, the candidate at
\* 4.3, less than min_apy_diff above it, and the gate accepts
C19_Witness ==
    /\ gate_call # None
    /\ rebalance_count = 0
    /\ gate_call[1].current_vault = to_checksum_address(GLUEX_VAULTS[1])
    /\ gate_call[1].current_apy = F0
    /\ gate_call[1].new_vault = GLUEX_VAULTS[3]
    /\ gate_call[1].new_apy = Float(43, 10)
    /\ gate_call[1].ret

\* C20 (as claimed): the amount handed to the ranking is the amount of the
\* allocation read at the start of the cycle when that is positive, and the
\* fallback amount when that allocation is empty, zero or its read failed.
C20_AmountOfFirstRead ==
    pc \in {"gate", "execute"} =>
        scan_amount = IF allocation.amount > 0 THEN Str(allocation.amount)
                      ELSE DEFAULT_AMOUNT

\* C20 (amended): the amount handed to the ranking is the amount of the
\* allocation that find_best_opportunity reads itself, a second read after the
\* one at the start of the cycle, when that amount is positive, and the
\* fallback amount when that second allocation is empty, zero or its read
\* failed.
C20_AmountOfSecondRead ==
    scan_amount # NoneStr =>
        /\ scan_alloc_amount > 0 => scan_amount = Str(scan_alloc_amount)
        /\ scan_alloc_amount = 0 => scan_amount = DEFAULT_AMOUNT
        /\ scan_alloc_amount >= 0

\* the first read failed, the second returned 5000000: that amount is used
C20_Witness ==
    /\ pc = "gate"
    /\ alloc_failed
    /\ allocation.amount = 0
    /\ scan_alloc_amount = 5000000
    /\ scan_amount = << "5", "0", "0", "0", "0", "0", "0" >>

\* the score of entry i of the list that is ranked, taken from RankScores
RankScore(i) == RankScores[<< call.yield_data_list[i], call.optimize_for >>]

\* the ranking returned entry k: its address, the entry and its score; the
\* score is a number above -inf, no entry scores higher and no earlier
\* entry scores as high (a score that is not a number is neither)
RankReturned(k) ==
    /\ ret[1] = Some([vault |-> call.yield_data_list[k].vault_address,
                      data |-> call.yield_data_list[k],
                      score |-> RankScore(k)])
    /\ FGt(RankScore(k), Inf(TRUE))
    /\ \A j \in DOMAIN call.yield_data_list : ~FGt(RankScore(j), RankScore(k))
    /\ \A j \in 1..(k - 1) : ~FGe(RankScore(j), RankScore(k))

\* C13 (as claimed): the ranking returns none if and only if the scan
\* produced no entry; otherwise it returns the entry with the maximum score,
\* the first one in input order among those with that score.
C13_NoneIffEmpty ==
    ret # None =>
        /\ ret[1] = None <=> call.yield_data_list = << >>
        /\ ret[1] # None => \E k \in DOMAIN call.yield_data_list : RankReturned(k)

\* C13 (amended): the ranking returns none if and only if no entry of the
\* scan has a score greater than -inf, which is so for an empty scan and
\* also when every score is -inf or not a number; otherwise it returns the
\* entry with the maximum score among the scores that are numbers, the
\* first one in input order among those with that score, together with
\* that score.
C13_NoneIffNoScoreAboveNegInf ==
    ret # None =>
        /\ ret[1] = None <=>
              \A i \in DOMAIN call.yield_data_list :
                  ~FGt(RankScore(i), Inf(TRUE))
        /\ ret[1] # None => \E k \in DOMAIN call.yield_data_list : RankReturned(k)

\* two different entries with the same, maximum score: the first is returned
C13_Witness ==
    /\ ret # None
    /\ ret[1] # None
    /\ Len(call.yield_data_list) = MaxScan
    /\ call.yield_data_list[2] # call.yield_data_list[3]
    /\ FEq(RankScore(2), RankScore(3))
    /\ FLt(RankScore(1), RankScore(2))
    /\ ret[1][1].vault = GLUEX_VAULTS[2]

\* the k-th smallest element of a set of numbers
Nth(S, k) == CHOOSE i \in S : Cardinality({x \in S : x < i}) = k - 1

\* the entries are those of the vaults with index in S, in input order
EntriesAre(entries, S) ==
    /\ Len(entries) = Cardinality(S)
    /\ \A j \in DOMAIN entries :
          entries[j].vault_address = call.vault_addresses[Nth(S, j)]

\* converting the figures of the answers a raises no exception
FiguresAreNumbers(a) ==
    /\ IsNumber(IF "apy" \in DOMAIN a.diluted[1] THEN a.diluted[1].apy ELSE F0)
    /\ IsNumber(IF "tvl" \in DOMAIN a.hist[1] THEN a.hist[1].tvl ELSE F0)

\* C14 (as claimed): the scan returns exactly the vaults for which both the
\* historical and the diluted answer are not none (and whose processing
\* raised no exception), in input order.
C14_BothNotNone ==
    ret # None =>
        EntriesAre(ret[1],
                   {i \in DOMAIN call.vault_addresses :
                       /\ call.answers[i].hist # None
                       /\ call.answers[i].diluted # None
                       /\ FiguresAreNumbers(call.answers[i])})

\* C14 (amended): the scan returns exactly the vaults for which both the
\* historical and the diluted answer are truthy, that is neither none nor an
\* empty object, and whose processing raised no exception, in input order;
\* a vault that is left out does not keep later vaults from being returned.
C14_BothTruthy ==
    ret # None =>
        EntriesAre(ret[1],
                   {i \in DOMAIN call.vault_addresses :
                       /\ call.answers[i].hist # None
                       /\ call.answers[i].diluted # None
                       /\ DOMAIN call.answers[i].hist[1] # {}
                       /\ DOMAIN call.answers[i].diluted[1] # {}
                       /\ FiguresAreNumbers(call.answers[i])})

\* the first vault has an empty answer, the second raises an exception, the
\* third is returned
C14_Witness ==
    /\ ret # None
    /\ Len(call.vault_addresses) = MaxScan
    /\ call.answers[1].hist = Some(EmptyDict)
    /\ call.answers[2].hist = Some(Dict2(FloatOfInt(4), JNull))
    /\ Len(ret[1]) = 1
    /\ ret[1][1].vault_address = GLUEX_VAULTS[MaxScan]

\* C15: for apy >= 0 and tvl >= 0 the risk score is
\* min(min(apy/100, 1)*50 + max(0, 50 - (tvl/10_000_000)*10), 100), that is
\* apy/100*50 below an APY of 100 and 50 from there on, plus
\* 50 - tvl/10_000_000*10 below a TVL of 50M and 0 from there on, and lies
\* in [0, 100].
C15_RiskInRange ==
    (ret # None /\ FGe(call.apy, F0) /\ FGe(call.tvl, F0)) =>
        LET apy_part == IF FGe(call.apy, F100) THEN F50
                        ELSE FMul(TrueDiv(call.apy, F100), F50)
            tvl_part == IF FGe(call.tvl, FloatOfInt(50000000)) THEN F0
                        ELSE FSub(F50, FMul(TrueDiv(call.tvl, F10M), F10))
        IN  /\ ret[1].score = FAdd(apy_part, tvl_part)
            /\ FGe(ret[1].score, F0)
            /\ FGe(F100, ret[1].score)

\* the upper end of the range is reached by an APY above the cap at no TVL,
\* and either term alone gives 50
C15_Witness ==
    /\ ret # None
    /\ call.apy = FloatOfInt(150) /\ call.tvl = F0
    /\ ret[1].score = F100
    /\ call.apy2 = F0 /\ call.tvl2 = FloatOfInt(60000000)
    /\ ret[1].other_apy = F50
    /\ ret[1].other_tvl = F50

\* C16 (as claimed): every entry a scan returns has a risk score within
\* [0, 100], whatever figures the yield service answered.
C16_RiskClamped ==
    ret # None =>
        \A i \in DOMAIN ret[1] :
            /\ FGe(ret[1][i].risk_score, F0)
            /\ FGe(F100, ret[1][i].risk_score)

\* C17: for apy, tvl >= 0 the risk score does not decrease when apy grows
\* with tvl fixed, and does not increase when tvl grows with apy fixed.
C17_RiskMonotone ==
    ( /\ ret # None
      /\ FGe(call.apy, F0) /\ FGe(call.tvl, F0)
      /\ FGe(call.apy2, F0) /\ FGe(call.tvl2, F0) ) =>
        /\ FGe(call.apy2, call.apy) => FGe(ret[1].other_apy, ret[1].score)
        /\ FGe(call.tvl2, call.tvl) => FGe(ret[1].score, ret[1].other_tvl)

\* a higher APY gives a strictly higher score, a higher TVL a strictly lower
C17_Witness ==
    /\ ret # None
    /\ call.apy = FloatOfInt(4) /\ call.apy2 = F50
    /\ call.tvl = FloatOfInt(5000000) /\ call.tvl2 = FloatOfInt(25000000)
    /\ ret[1].score = FloatOfInt(47)
    /\ ret[1].other_apy = FloatOfInt(70)
    /\ ret[1].other_tvl = FloatOfInt(27)

GeSum(x, y, d) ==
    /\ x.cls # "nan" /\ y.cls # "nan"
    /\ FCmp(x, IF y.cls = "inf" THEN y ELSE ExactSum(y, d)) >= 0

\* one step of the loop under a threshold min_apy_diff >= 0: current_apy
\* does not decrease; when it is assigned, and when a cycle ends with a
\* successful rebalance, it is at least min_apy_diff above its previous
\* value; and execute_rebalance is called only for a candidate whose APY is
\* at least current_apy + min_apy_diff
C21_Step ==
    FGe(config.min_apy_diff, F0) =>
        /\ FGe(current_apy', current_apy)
        /\ pc = "assign_apy" /\ pc' = "stamp" =>
              GeSum(current_apy', current_apy, config.min_apy_diff)
        /\ cycle_outcome' = "exec_ok" =>
              GeSum(current_apy', at_start'[2], config.min_apy_diff)
        /\ (execute_call = None /\ execute_call' # None) =>
              GeSum(result[1].data.apy, current_apy, config.min_apy_diff)

\* C21: when min_apy_diff >= 0, current_apy never decreases, each successful
\* rebalance raises it by at least min_apy_diff, and so no cycle rebalances
\* to a candidate whose APY is below current_apy + min_apy_diff.
C21_ApyNonDecreasing == [][C21_Step]_vars

\* a second successful rebalance, from APY 4 to a candidate exactly
\* min_apy_diff above it
C21_Witness ==
    /\ config.min_apy_diff = Float(1, 2)
    /\ success_receipts = 2
    /\ cycle_outcome = "exec_ok"
    /\ at_start[2] = FloatOfInt(4)
    /\ current_apy = Float(9, 2)

\* between two cycles: rebalance_count is the number of success receipts,
\* and current_vault is unset exactly when that is 0 and else is the
\* whitelisted target of the latest successful rebalance
C22_AtBoundary ==
    pc \in {"loop", "start", "sleep", "backoff"} =>
        /\ rebalance_count = success_receipts
        /\ rebalance_count = 0 <=> current_vault = NoneStr
        /\ rebalance_count > 0 =>
              /\ current_vault = last_success_target
              /\ current_vault \in Range(GLUEX_VAULTS)

\* C22: at every cycle boundary rebalance_count equals the number of execute
\* calls that obtained a success receipt and current_vault is unset exactly
\* when rebalance_count = 0, otherwise the whitelisted target of the most
\* recent successful rebalance; rebalance_count never decreases.
C22_CountAndVault ==
    /\ [] C22_AtBoundary
    /\ [][rebalance_count' >= rebalance_count]_vars

\* after two successful rebalances a cycle whose execute call failed for
\* another vault has left the count and the vault as they were
C22_Witness ==
    /\ pc = "sleep"
    /\ cycle_outcome = "exec_failed"
    /\ rebalance_count = 2
    /\ success_receipts = 2
    /\ current_vault = last_success_target
    /\ execute_call # None
    /\ execute_call[1].target_vault # current_vault
    /\ execute_call[1].sent # << >>

====
